---------------------------- MODULE Spec2Model ----------------------------
(***************************************************************************)
(* Model of the extraction pipeline of the repository:                     *)
(*   - the /api/extract handler of src/server.ts (registry lookups,        *)
(*     document sorting, primary and fallback AI extraction, ethnicity     *)
(*     call, web search, combined row);                                    *)
(*   - the /api/pdf proxy (plugin ch-pdf-proxy) of src/vite.config.ts.     *)
(* JavaScript values are modelled as strings; the two non-string values    *)
(* the code can meet are the markers Undef (undefined / absent property)   *)
(* and Null (the JSON value null).                                         *)
(***************************************************************************)
EXTENDS Naturals, Sequences, FiniteSets, TLC

\* Longest filing history of mixed categories the registry answers with
\* in the model.
MaxItems == 3

\* Longest filing history of accounts items alone.
MaxAccounts == 4

\* Most calls of handleExtract in one session of the page.
MaxRuns == 2

\* Longest filing history the page's lookup is answered with.
MaxFilings == 2

Undef == "<undefined>"
Null == "<null>"

\* JavaScript truthiness of the values of the model (!x, x || y, if (x)).
Falsy(v) == v \in {Undef, Null, ""}

Truthy(v) == ~Falsy(v)

\* a || b
OrElse(a, b) == IF Truthy(a) THEN a ELSE b

(***************************************************************************)
(* Buffer.from(bytes).toString("base64"): three bytes become four sextets; *)
(* a last group of one or two bytes is padded with '=' (written 64).       *)
(***************************************************************************)
RECURSIVE Base64(_)
Base64(b) ==
  IF Len(b) = 0 THEN <<>>
  ELSE IF Len(b) = 1 THEN
    <<b[1] \div 4, (b[1] % 4) * 16, 64, 64>>
  ELSE IF Len(b) = 2 THEN
    <<b[1] \div 4, (b[1] % 4) * 16 + b[2] \div 16, (b[2] % 16) * 4, 64>>
  ELSE
    <<b[1] \div 4, (b[1] % 4) * 16 + b[2] \div 16,
      (b[2] % 16) * 4 + b[3] \div 64, b[3] % 64>>
    \o Base64(SubSeq(b, 4, Len(b)))

(***************************************************************************)
(* The registry's data, as far as the handler reads it.                    *)
(***************************************************************************)
\* The document-metadata URL of the filing at position i of the history.
DocUrl(i) == "https://reg/doc/" \o ToString(i)

\* The bytes served for a document URL: the filing's position and the
\* first bytes of "%PD", so that no two documents have the same bytes.
DocBytes(url) ==
  LET i == CHOOSE j \in 1..(MaxItems + MaxAccounts + MaxFilings) : DocUrl(j) = url
  IN  <<i>> \o SubSeq(<<37, 80, 68>>, 1, i % 4)

\* category, description (its words) and whether links.document_metadata
\* is present.
ItemKinds ==
  { [category |-> "insolvency",
     description |-> <<"liquidation", "statement-of-affairs", "with-form">>,
     linked |-> TRUE],
    [category |-> "insolvency",
     description |-> <<"liquidation", "statement-of-affairs", "with-form">>,
     linked |-> FALSE],
    [category |-> "insolvency", description |-> <<"resolution">>, linked |-> TRUE],
    [category |-> "accounts", description |-> <<"accounts", "total-exemption">>,
     linked |-> TRUE],
    [category |-> "accounts", description |-> <<"accounts", "total-exemption">>,
     linked |-> FALSE] }

FilingItem(kind, i) ==
  [category |-> kind.category, description |-> kind.description,
   document_metadata |-> IF kind.linked THEN DocUrl(i) ELSE Undef]

\* Every list of at most n items of the given kinds.
HistoriesOf(kinds, n) ==
  UNION { { [i \in 1..m |-> FilingItem(ks[i], i)] : ks \in [1..m -> kinds] }
          : m \in 0..n }

\* The filing histories, in the registry's order: every one of at most
\* MaxItems items, and every one of at most MaxAccounts accounts items.
FilingHistories ==
  HistoriesOf(ItemKinds, MaxItems)
    \cup HistoriesOf({k \in ItemKinds : k.category = "accounts"}, MaxAccounts)

\* description?.includes(word)
Includes(description, word) ==
  \E i \in 1..Len(description) : description[i] = word

OfficerLists ==
  { <<>>,
    << [name |-> "SECRETARY, Sam", officer_role |-> "secretary"] >>,
    << [name |-> "SECRETARY, Sam", officer_role |-> "secretary"],
       [name |-> "FIRST, Ann", officer_role |-> "director"],
       [name |-> "SECOND, Bob", officer_role |-> "director"] >> }

(***************************************************************************)
(* The extraction record and the combined row.                             *)
(***************************************************************************)
FinancialFields ==
  {"totalAssets", "odla", "totalDeficiency", "bblCbils",
   "hmrcPreferential", "hmrcUnsecured", "tradeCreditors"}

ExtractionFields == FinancialFields \cup {"accountantFirmName"}

OptionalFields ==
  ExtractionFields \cup {"directorName", "ethnicity", "accountantUrl"}

(***************************************************************************)
(* JSON values: null, or an object with some properties.                   *)
(***************************************************************************)
NoProps == [f \in {} |-> ""]

NullValue == [null |-> TRUE, props |-> NoProps]

Obj(p) == [null |-> FALSE, props |-> p]

\* let extractedData: any = {}
EmptyObject == Obj(NoProps)

\* obj.f on an object: undefined when the property is absent.
Prop(obj, f) == IF f \in DOMAIN obj.props THEN obj.props[f] ELSE Undef

\* Mutant of SetProp: the object is replaced by one holding only f.
SetPropReplacing(obj, f, v) == Obj([g \in {f} |-> v])

\* obj.f = v
SetProp(obj, f, v) ==
  Obj([g \in DOMAIN obj.props \cup {f} |-> IF g = f THEN v ELSE obj.props[g]])

\* The object with the properties in present, read from a document.
ObjectWith(present, firm) ==
  Obj([f \in present |-> IF f = "accountantFirmName" THEN firm ELSE "GBP-" \o f])

(***************************************************************************)
(* What the AI provider can answer: the call rejects, or response.text is  *)
(* absent, is not JSON, or is the JSON text of a value.                    *)
(***************************************************************************)
Text(kind, value) == [kind |-> kind, value |-> value]

AiResults(values) ==
  { [rejects |-> TRUE, text |-> Text("absent", EmptyObject)],
    [rejects |-> FALSE, text |-> Text("absent", EmptyObject)],
    [rejects |-> FALSE, text |-> Text("garbage", EmptyObject)] }
  \cup { [rejects |-> FALSE, text |-> Text("json", v)] : v \in values }

\* JSON.parse(text || "{}"): throws on text that is not JSON.
JsonParse(text) ==
  [throws |-> text.kind = "garbage",
   value |-> IF text.kind = "json" THEN text.value ELSE EmptyObject]

PrimaryValues ==
  { NullValue,
    ObjectWith({}, ""),
    ObjectWith(ExtractionFields, "Smith & Co"),
    ObjectWith(ExtractionFields, ""),
    ObjectWith(FinancialFields, ""),
    ObjectWith({"totalAssets", "accountantFirmName"}, "Smith & Co") }

\* The firm named in the accounts document at url.
FirmIn(url) == "Jones LLP of " \o url

FallbackValues(url) ==
  { NullValue,
    ObjectWith({}, ""),
    ObjectWith({"accountantFirmName"}, ""),
    ObjectWith({"accountantFirmName"}, FirmIn(url)) }

EthnicityValues ==
  { NullValue, Obj(NoProps), Obj([f \in {"ethnicity"} |-> "British"]) }

\* searchResults.results, as the urls of the results (none when absent).
SearchResults ==
  { <<>>, <<"https://smithco.example">>,
    <<"https://smithco.example", "https://other.example">> }


(***************************************************************************)
(* State of one /api/extract request (src/server.ts).  The handler's       *)
(* locals keep their names; pc is the await the handler stands at; calls   *)
(* is every external call made so far, in order; res is the answer.        *)
(***************************************************************************)
VARIABLES pc, body, companyRes, companyData, filingRes, filingData,
          officersRes, directorName, soaItem, accountItems, extractedData,
          accIdx, pdfBase64, ethnicity, accountantUrl, calls, res, logged

extractVars ==
  <<pc, body, companyRes, companyData, filingRes, filingData, officersRes,
    directorName, soaItem, accountItems, extractedData, accIdx, pdfBase64,
    ethnicity, accountantUrl, calls, res, logged>>

(***************************************************************************)
(* State of one /api/pdf request (plugin ch-pdf-proxy, src/vite.config.ts).*)
(* ppc is the promise of the chain that is pending; requests is every      *)
(* fetch made so far, in order; pres is the answer.                        *)
(***************************************************************************)
VARIABLES ppc, headers, metaRes, docUrlLocal, docRes, s3Url, s3Res, requests,
          pres

pdfVars ==
  <<ppc, headers, metaRes, docUrlLocal, docRes, s3Url, s3Res, requests, pres>>

(***************************************************************************)
(* State of the browser component (src/src/App.tsx).  The useState values  *)
(* keep their names and hold the latest value set; view is what the last   *)
(* render showed and closed over (the handlers of the page see these       *)
(* values until the next render); runs holds one record per call of        *)
(* handleExtract that got past validation: its closure, its locals and the *)
(* await it stands at.                                                     *)
(***************************************************************************)
VARIABLES chApiKey, geminiApiKey, companyNumber, loading, activeStep, error,
          results, view, runs

appVars ==
  <<chApiKey, geminiApiKey, companyNumber, loading, activeStep, error,
    results, view, runs>>

vars == <<extractVars, pdfVars, appVars>>

\* An /api/extract request touches nothing of the proxy or of the page, and
\* the same for the other two.
OnlyExtract == UNCHANGED <<pdfVars, appVars>>

OnlyPdf == UNCHANGED <<extractVars, appVars>>

OnlyApp == UNCHANGED <<extractVars, pdfVars>>

RegistryBase == "https://api.company-information.service.gov.uk/company/"

\* An external call: a fetch (with its Authorization header and redirect
\* mode), an AI call (with the inline document data) or a web search.
\* yield is the accountantFirmName the call's answer gave ("" when none).
Call(kind, url, auth, redirect, data) ==
  [kind |-> kind, url |-> url, auth |-> auth, redirect |-> redirect,
   data |-> data, yield |-> ""]

\* fetch(url, { headers: { Authorization: authHeader } }): redirects are
\* followed by the runtime (the default mode).
AuthFetch(kind, url) == Call(kind, url, TRUE, "follow", <<>>)

NoResponse == [status |-> 0, kind |-> "none", error |-> "", row |-> NoProps]

\* res.status(code).json({ error: message })
ErrorResponse(code, message) ==
  [status |-> code, kind |-> "error", error |-> message, row |-> NoProps]

\* res.json(object): a property whose value is undefined is left out.
JsonResponse(object) ==
  [status |-> 200, kind |-> "row", error |-> "",
   row |-> [f \in {g \in DOMAIN object : object[g] # Undef} |-> object[f]]]

InitExtract ==
  /\ pc = "start"
  /\ body = [companyNumber |-> "", chApiKey |-> ""]
  /\ companyRes = "none"
  /\ companyData = [company_name |-> "", company_number |-> ""]
  /\ filingRes = "none"
  /\ filingData = <<>>
  /\ officersRes = "none"
  /\ directorName = ""
  /\ soaItem = 0
  /\ accountItems = <<>>
  /\ extractedData = EmptyObject
  /\ accIdx = 0
  /\ pdfBase64 = <<>>
  /\ ethnicity = ""
  /\ accountantUrl = ""
  /\ calls = <<>>
  /\ res = NoResponse
  /\ logged = <<>>

\* console.error(message, e) when the step failed.
ConsoleError(failed, message) ==
  IF failed THEN Append(logged, message) ELSE logged

\* The outer catch: console.error(error);
\* res.status(500).json({ error: error.message }).
Catch500(message) ==
  /\ logged' = ConsoleError(TRUE, message)
  /\ res' = ErrorResponse(500, message)
  /\ pc' = "done"

\* What a registry lookup can do: answer 2xx, answer another status, or
\* reject (no answer at all).
LookupOutcomes == {"ok", "notok", "rejected"}

\* if (!companyNumber || !chApiKey) return res.status(400)...
\* Mutant of MissingInput: only the company number is required.
MissingInputOnlyNumber(b) == Falsy(b.companyNumber)

MissingInput(b) == Falsy(b.companyNumber) \/ Falsy(b.chApiKey)

ValidateInput ==
  /\ OnlyExtract
  /\ pc = "start"
  /\ \E cn \in {"", "11969947"}, key \in {"", "ch-key"} :
       /\ body' = [companyNumber |-> cn, chApiKey |-> key]
       /\ IF MissingInput(body')
          THEN /\ res' = ErrorResponse(400,
                    "Company Number and Companies House API Key are required.")
               /\ pc' = "done"
          ELSE /\ res' = res
               /\ pc' = "companyRes"
  /\ UNCHANGED <<companyRes, companyData, filingRes, filingData, officersRes,
                 directorName, soaItem, accountItems, extractedData, accIdx,
                 pdfBase64, ethnicity, accountantUrl, calls, logged>>

\* Mutant of CompanyResThrows: the status of the profile answer is ignored.
CompanyResNeverThrows(outcome) == FALSE

\* if (!companyRes.ok) throw ...
CompanyResThrows(outcome) == outcome # "ok"

FetchCompany ==
  /\ OnlyExtract
  /\ pc = "companyRes"
  /\ calls' = Append(calls, AuthFetch("profile", RegistryBase \o body.companyNumber))
  /\ \E outcome \in LookupOutcomes :
       /\ companyRes' = outcome
       /\ IF outcome = "rejected"
          THEN Catch500("fetch failed") /\ UNCHANGED companyData
          ELSE IF CompanyResThrows(outcome)
          THEN Catch500("Failed to fetch company details: Not Found")
               /\ UNCHANGED companyData
          ELSE /\ companyData' = [company_name |-> "ACME LTD",
                                  company_number |-> body.companyNumber]
               /\ pc' = "filingRes"
               /\ UNCHANGED <<res, logged>>
  /\ UNCHANGED <<body, filingRes, filingData, officersRes, directorName,
                 soaItem, accountItems, extractedData, accIdx, pdfBase64,
                 ethnicity, accountantUrl>>

\* if (!filingRes.ok) throw ...
FilingResThrows(outcome) == outcome # "ok"

FetchFiling ==
  /\ OnlyExtract
  /\ pc = "filingRes"
  /\ calls' = Append(calls,
       AuthFetch("history", RegistryBase \o body.companyNumber
                            \o "/filing-history?items_per_page=100"))
  /\ \E outcome \in LookupOutcomes :
       /\ filingRes' = outcome
       /\ IF outcome = "rejected"
          THEN Catch500("fetch failed") /\ UNCHANGED filingData
          ELSE IF FilingResThrows(outcome)
          THEN Catch500("Failed to fetch filing history: Not Found")
               /\ UNCHANGED filingData
          ELSE /\ \E items \in FilingHistories : filingData' = items
               /\ pc' = "officersRes"
               /\ UNCHANGED <<res, logged>>
  /\ UNCHANGED <<body, companyRes, companyData, officersRes, directorName,
                 soaItem, accountItems, extractedData, accIdx, pdfBase64,
                 ethnicity, accountantUrl>>

\* officersData.items?.find(o => o.officer_role === "director"), then
\* directorName = director.name when there is one.
FirstDirector(officers) ==
  LET ds == {i \in 1..Len(officers) : officers[i].officer_role = "director"}
  IN  IF ds = {} THEN ""
      ELSE officers[CHOOSE i \in ds : \A j \in ds : i <= j].name

\* The officers lookup stands outside every inner try: a rejected fetch
\* reaches the outer catch.
FetchOfficers ==
  /\ OnlyExtract
  /\ pc = "officersRes"
  /\ calls' = Append(calls,
       AuthFetch("officers", RegistryBase \o body.companyNumber \o "/officers"))
  /\ \E outcome \in LookupOutcomes :
       /\ officersRes' = outcome
       /\ IF outcome = "rejected"
          THEN Catch500("fetch failed") /\ UNCHANGED directorName
          ELSE IF outcome = "ok"
          THEN /\ \E officers \in OfficerLists :
                    directorName' = FirstDirector(officers)
               /\ pc' = "sorting"
               /\ UNCHANGED <<res, logged>>
          ELSE /\ directorName' = ""
               /\ pc' = "sorting"
               /\ UNCHANGED <<res, logged>>
  /\ UNCHANGED <<body, companyRes, companyData, filingRes, filingData,
                 soaItem, accountItems, extractedData, accIdx, pdfBase64,
                 ethnicity, accountantUrl>>

(***************************************************************************)
(* 2. Document Sorting                                                     *)
(***************************************************************************)
\* slice(0, 3)
AccountsLimit == 3

\* item.category === "insolvency" &&
\* item.description?.includes("statement-of-affairs")
IsSoa(item) ==
  item.category = "insolvency" /\ Includes(item.description, "statement-of-affairs")

\* Mutant of FindSoa: the last match instead of the first.
FindSoaLast(items) ==
  LET ms == {i \in 1..Len(items) : IsSoa(items[i])}
  IN  IF ms = {} THEN 0 ELSE CHOOSE i \in ms : \A j \in ms : i >= j

\* items.find(IsSoa), as the position of the item found; 0 is undefined.
FindSoa(items) ==
  LET ms == {i \in 1..Len(items) : IsSoa(items[i])}
  IN  IF ms = {} THEN 0 ELSE CHOOSE i \in ms : \A j \in ms : i <= j

IsAccounts(item) == item.category = "accounts"

\* Mutant of FilterAccounts: the slice is missing.
FilterAccountsUnsliced(items) == SelectSeq(items, IsAccounts)

\* items.filter(IsAccounts).slice(0, 3)
FilterAccounts(items) ==
  LET all == SelectSeq(items, IsAccounts)
  IN  SubSeq(all, 1, IF Len(all) < AccountsLimit THEN Len(all) ELSE AccountsLimit)

\* if (soaItem && soaItem.links?.document_metadata)
PrimaryGuard(items, soa) == soa # 0 /\ Truthy(items[soa].document_metadata)

DocumentSorting ==
  /\ OnlyExtract
  /\ pc = "sorting"
  /\ soaItem' = FindSoa(filingData)
  /\ accountItems' = FilterAccounts(filingData)
  /\ extractedData' = EmptyObject
  /\ pc' = IF PrimaryGuard(filingData, soaItem') THEN "soaDownload" ELSE "fallbackGuard"
  /\ UNCHANGED <<body, companyRes, companyData, filingRes, filingData,
                 officersRes, directorName, accIdx, pdfBase64, ethnicity,
                 accountantUrl, calls, res, logged>>

(***************************************************************************)
(* downloadPdf: one fetch of the document-metadata URL with the            *)
(* Authorization header and Accept: application/pdf, in the default        *)
(* redirect mode; a non-2xx answer throws; the body is returned in base64. *)
(***************************************************************************)
DownloadRequest(url) == Call("download", url, TRUE, "follow", <<>>)

\* if (!res.ok) throw new Error(`Failed to download PDF: ...`)
DownloadThrows(outcome) == outcome # "ok"

(***************************************************************************)
(* 3. PDF Processing & AI Extraction                                       *)
(***************************************************************************)
\* The accountantFirmName an answer gives, "" when it gives none.
YieldOf(r) ==
  IF r.rejects \/ JsonParse(r.text).throws \/ JsonParse(r.text).value.null THEN ""
  ELSE OrElse(Prop(JsonParse(r.text).value, "accountantFirmName"), "")

ExtractCall(kind, model, data, r) ==
  [Call(kind, model, FALSE, "none", data) EXCEPT !.yield = YieldOf(r)]

SoaDownload ==
  /\ OnlyExtract
  /\ pc = "soaDownload"
  /\ calls' = Append(calls, DownloadRequest(filingData[soaItem].document_metadata))
  /\ \E outcome \in LookupOutcomes :
       /\ logged' = ConsoleError(DownloadThrows(outcome), "Failed to extract SoA")
       /\ IF DownloadThrows(outcome)
          THEN pc' = "fallbackGuard" /\ UNCHANGED pdfBase64
          ELSE /\ pdfBase64' = Base64(DocBytes(filingData[soaItem].document_metadata))
               /\ pc' = "soaExtract"
  /\ UNCHANGED <<body, companyRes, companyData, filingRes, filingData,
                 officersRes, directorName, soaItem, accountItems,
                 extractedData, accIdx, ethnicity, accountantUrl, res>>

SoaExtract ==
  /\ OnlyExtract
  /\ pc = "soaExtract"
  /\ \E r \in AiResults(PrimaryValues) :
       /\ calls' = Append(calls,
            ExtractCall("extract", "gemini-3.1-pro-preview", pdfBase64, r))
       /\ extractedData' =
            IF r.rejects \/ JsonParse(r.text).throws THEN extractedData
            ELSE JsonParse(r.text).value
       /\ logged' = ConsoleError(r.rejects \/ JsonParse(r.text).throws,
                                 "Failed to extract SoA")
  /\ pc' = "fallbackGuard"
  /\ UNCHANGED <<body, companyRes, companyData, filingRes, filingData,
                 officersRes, directorName, soaItem, accountItems, accIdx,
                 pdfBase64, ethnicity, accountantUrl, res>>

(***************************************************************************)
(* 4. Fallback Logic                                                       *)
(***************************************************************************)
\* if (!extractedData.accountantFirmName && accountItems.length > 0)
\* Reading a property of null throws, outside every inner try.
FallbackGuard ==
  /\ OnlyExtract
  /\ pc = "fallbackGuard"
  /\ IF extractedData.null
     THEN Catch500("Cannot read properties of null") /\ UNCHANGED accIdx
     ELSE /\ UNCHANGED <<res, logged>>
          /\ IF Falsy(Prop(extractedData, "accountantFirmName"))
                /\ Len(accountItems) > 0
             THEN accIdx' = 1 /\ pc' = "loop"
             ELSE accIdx' = accIdx /\ pc' = "ethnicity"
  /\ UNCHANGED <<body, companyRes, companyData, filingRes, filingData,
                 officersRes, directorName, soaItem, accountItems,
                 extractedData, pdfBase64, ethnicity, accountantUrl, calls>>

\* for (const accItem of accountItems) { if (accItem.links?.document_metadata)
LoopStep ==
  /\ OnlyExtract
  /\ pc = "loop"
  /\ IF accIdx > Len(accountItems) THEN pc' = "ethnicity" /\ accIdx' = accIdx
     ELSE IF Truthy(accountItems[accIdx].document_metadata)
     THEN pc' = "accDownload" /\ accIdx' = accIdx
     ELSE pc' = "loop" /\ accIdx' = accIdx + 1
  /\ UNCHANGED <<body, companyRes, companyData, filingRes, filingData,
                 officersRes, directorName, soaItem, accountItems,
                 extractedData, pdfBase64, ethnicity, accountantUrl, calls, res, logged>>

\* Mutant of AfterFailure: a failure leaves the loop.
AfterFailureLeaves(i) == [pc |-> "ethnicity", accIdx |-> i]

\* Mutant of AfterFailure: the failed item is tried again.
AfterFailureRetries(i) == [pc |-> "accDownload", accIdx |-> i]

\* catch (e) { console.error(...) }: the loop goes on with the next item.
AfterFailure(i) == [pc |-> "loop", accIdx |-> i + 1]

\* Mutant of AfterFound: the break is missing.
AfterFoundGoesOn(i) == [pc |-> "loop", accIdx |-> i + 1]

\* if (accData.accountantFirmName) { ...; break; }
AfterFound(i) == [pc |-> "ethnicity", accIdx |-> i]

AccDownload ==
  /\ OnlyExtract
  /\ pc = "accDownload"
  /\ calls' = Append(calls, DownloadRequest(accountItems[accIdx].document_metadata))
  /\ \E outcome \in LookupOutcomes :
       /\ logged' = ConsoleError(DownloadThrows(outcome),
                                 "Failed to extract Accounts")
       /\ IF DownloadThrows(outcome)
          THEN /\ pc' = AfterFailure(accIdx).pc
               /\ accIdx' = AfterFailure(accIdx).accIdx
               /\ UNCHANGED pdfBase64
          ELSE /\ pdfBase64' = Base64(DocBytes(accountItems[accIdx].document_metadata))
               /\ pc' = "accExtract"
               /\ accIdx' = accIdx
  /\ UNCHANGED <<body, companyRes, companyData, filingRes, filingData,
                 officersRes, directorName, soaItem, accountItems,
                 extractedData, ethnicity, accountantUrl, res>>

AccExtract ==
  /\ OnlyExtract
  /\ pc = "accExtract"
  /\ \E r \in AiResults(FallbackValues(accountItems[accIdx].document_metadata)) :
       /\ calls' = Append(calls,
            ExtractCall("fallbackExtract", "gemini-2.5-flash", pdfBase64, r))
       /\ logged' =
            ConsoleError(r.rejects \/ JsonParse(r.text).throws
                           \/ JsonParse(r.text).value.null,
                         "Failed to extract Accounts")
       /\ IF r.rejects \/ JsonParse(r.text).throws \/ JsonParse(r.text).value.null
          THEN /\ pc' = AfterFailure(accIdx).pc
               /\ accIdx' = AfterFailure(accIdx).accIdx
               /\ UNCHANGED extractedData
          ELSE IF Truthy(Prop(JsonParse(r.text).value, "accountantFirmName"))
          THEN /\ extractedData' =
                    SetProp(extractedData, "accountantFirmName",
                            Prop(JsonParse(r.text).value, "accountantFirmName"))
               /\ pc' = AfterFound(accIdx).pc
               /\ accIdx' = AfterFound(accIdx).accIdx
          ELSE /\ pc' = "loop"
               /\ accIdx' = accIdx + 1
               /\ UNCHANGED extractedData
  /\ UNCHANGED <<body, companyRes, companyData, filingRes, filingData,
                 officersRes, directorName, soaItem, accountItems, pdfBase64,
                 ethnicity, accountantUrl, res>>

(***************************************************************************)
(* 5. Ethnicity AI                                                         *)
(***************************************************************************)
EthnicitySkip ==
  /\ OnlyExtract
  /\ pc = "ethnicity"
  /\ Falsy(directorName)
  /\ pc' = "search"
  /\ UNCHANGED <<body, companyRes, companyData, filingRes, filingData,
                 officersRes, directorName, soaItem, accountItems,
                 extractedData, accIdx, pdfBase64, ethnicity, accountantUrl,
                 calls, res, logged>>

\* ethnicity = JSON.parse(ethResponse.text || "{}").ethnicity
EthnicityOf(value) == Prop(value, "ethnicity")

EthnicityCall ==
  /\ OnlyExtract
  /\ pc = "ethnicity"
  /\ Truthy(directorName)
  /\ calls' = Append(calls, Call("ethnicity", "gemini-2.5-flash", FALSE, "none", <<>>))
  /\ \E r \in AiResults(EthnicityValues) :
       /\ ethnicity' =
            IF r.rejects \/ JsonParse(r.text).throws \/ JsonParse(r.text).value.null
            THEN ethnicity
            ELSE EthnicityOf(JsonParse(r.text).value)
       /\ logged' =
            ConsoleError(r.rejects \/ JsonParse(r.text).throws
                           \/ JsonParse(r.text).value.null,
                         "Failed to extract ethnicity")
  /\ pc' = "search"
  /\ UNCHANGED <<body, companyRes, companyData, filingRes, filingData,
                 officersRes, directorName, soaItem, accountItems,
                 extractedData, accIdx, pdfBase64, accountantUrl, res>>

(***************************************************************************)
(* 6. Web Search                                                           *)
(***************************************************************************)
\* Mutant of SearchGuard: the search is run whether or not a name was found.
SearchAlways(data) == TRUE

\* if (extractedData.accountantFirmName)
SearchGuard(data) == Truthy(Prop(data, "accountantFirmName"))

\* searchResults.results[0].url when there is a result; "" stands for none.
FirstResultUrl(hits) == IF Len(hits) > 0 THEN hits[1] ELSE ""

SearchSkip ==
  /\ OnlyExtract
  /\ pc = "search"
  /\ ~SearchGuard(extractedData)
  /\ pc' = "respond"
  /\ UNCHANGED <<body, companyRes, companyData, filingRes, filingData,
                 officersRes, directorName, soaItem, accountItems,
                 extractedData, accIdx, pdfBase64, ethnicity, accountantUrl,
                 calls, res, logged>>

SearchCall ==
  /\ OnlyExtract
  /\ pc = "search"
  /\ SearchGuard(extractedData)
  /\ \E rejects \in BOOLEAN, hits \in SearchResults :
       /\ calls' = Append(calls,
            [Call("search", Prop(extractedData, "accountantFirmName") \o " UK",
                  FALSE, "none", <<>>)
               EXCEPT !.yield = IF rejects THEN "" ELSE FirstResultUrl(hits)])
       /\ accountantUrl' =
            IF ~rejects /\ Len(hits) > 0 THEN hits[1] ELSE accountantUrl
       /\ logged' = ConsoleError(rejects, "Web search failed")
  /\ pc' = "respond"
  /\ UNCHANGED <<body, companyRes, companyData, filingRes, filingData,
                 officersRes, directorName, soaItem, accountItems,
                 extractedData, accIdx, pdfBase64, ethnicity, res>>

(***************************************************************************)
(* 7. Return combined data                                                 *)
(***************************************************************************)
\* Mutant of FieldOrEmpty: the field is copied as it is.
FieldAsIs(data, f) == Prop(data, f)

\* extractedData.f || ""
FieldOrEmpty(data, f) == OrElse(Prop(data, f), "")

CombinedData ==
  [f \in OptionalFields \cup {"companyName", "companyNumber"} |->
     IF f = "companyName" THEN companyData.company_name
     ELSE IF f = "companyNumber" THEN companyData.company_number
     ELSE IF f = "directorName" THEN directorName
     ELSE IF f = "ethnicity" THEN ethnicity
     ELSE IF f = "accountantUrl" THEN accountantUrl
     ELSE FieldOrEmpty(extractedData, f)]

Respond ==
  /\ OnlyExtract
  /\ pc = "respond"
  /\ res' = JsonResponse(CombinedData)
  /\ pc' = "done"
  /\ UNCHANGED <<body, companyRes, companyData, filingRes, filingData,
                 officersRes, directorName, soaItem, accountItems,
                 extractedData, accIdx, pdfBase64, ethnicity, accountantUrl,
                 calls, logged>>

NextExtract ==
  \/ ValidateInput
  \/ FetchCompany
  \/ FetchFiling
  \/ FetchOfficers
  \/ DocumentSorting
  \/ SoaDownload
  \/ SoaExtract
  \/ FallbackGuard
  \/ LoopStep
  \/ AccDownload
  \/ AccExtract
  \/ EthnicitySkip
  \/ EthnicityCall
  \/ SearchSkip
  \/ SearchCall
  \/ Respond



(***************************************************************************)
(* The /api/pdf proxy (plugin ch-pdf-proxy).                               *)
(***************************************************************************)
\* A fetch of the proxy: its URL, whether it carries the Authorization
\* header, and its redirect mode.
Request(url, auth, redirect) == [url |-> url, auth |-> auth, redirect |-> redirect]

NoAnswer == [status |-> 0, kind |-> "none", error |-> "", base64 |-> <<>>]

\* res.statusCode = code; res.end(JSON.stringify({ error: message }))
PdfError(code, message) ==
  [status |-> code, kind |-> "error", error |-> message, base64 |-> <<>>]

\* res.end(JSON.stringify({ success: true, base64: ... })), statusCode 200.
PdfSuccess(buffer) ==
  [status |-> 200, kind |-> "success", error |-> "", base64 |-> Base64(buffer)]

InitPdf ==
  /\ ppc = "start"
  /\ headers = [targetUrl |-> "", apiKey |-> ""]
  /\ metaRes = [status |-> 0, body |-> "none"]
  /\ docUrlLocal = ""
  /\ docRes = [status |-> 0, location |-> Undef]
  /\ s3Url = ""
  /\ s3Res = [status |-> 0, bytes |-> <<>>]
  /\ requests = <<>>
  /\ pres = NoAnswer

\* .catch(err => { res.statusCode = 500; ... })
PdfCatch(message) ==
  /\ pres' = PdfError(500, message)
  /\ ppc' = "done"

\* if (!targetUrl || !apiKey)
MissingHeaders(h) == Falsy(h.targetUrl) \/ Falsy(h.apiKey)

PdfRequest ==
  /\ OnlyPdf
  /\ ppc = "start"
  /\ \E target \in {"", DocUrl(1)}, key \in {"", "ch-key"} :
       /\ headers' = [targetUrl |-> target, apiKey |-> key]
       /\ IF MissingHeaders(headers')
          THEN pres' = PdfError(400, "Missing headers") /\ ppc' = "done"
          ELSE pres' = pres /\ ppc' = "meta"
  /\ UNCHANGED <<metaRes, docUrlLocal, docRes, s3Url, s3Res, requests>>

\* What the registry answers to the metadata request: its status, and
\* whether the body is JSON with links.document, JSON without it, or not
\* JSON.
MetaAnswers ==
  { [status |-> 200, body |-> "link"], [status |-> 200, body |-> "nolink"],
    [status |-> 401, body |-> "nolink"], [status |-> 404, body |-> "nolink"],
    [status |-> 404, body |-> "nonjson"] }

\* meta.links?.document
DocumentLink(target, answer) ==
  IF answer.body = "link" THEN target \o "/content" ELSE Undef

\* 1. Fetch metadata: fetch, r.json(), then the check of links.document.
PdfFetchMeta ==
  /\ OnlyPdf
  /\ ppc = "meta"
  /\ requests' = Append(requests, Request(headers.targetUrl, TRUE, "follow"))
  /\ \/ /\ PdfCatch("fetch failed")
        /\ UNCHANGED <<metaRes, docUrlLocal>>
     \/ \E answer \in MetaAnswers :
          /\ metaRes' = answer
          /\ IF answer.body = "nonjson"
             THEN PdfCatch("Unexpected token") /\ UNCHANGED docUrlLocal
             ELSE /\ docUrlLocal' = DocumentLink(headers.targetUrl, answer)
                  /\ IF Falsy(docUrlLocal')
                     THEN PdfCatch("No document link found in Companies House.")
                     ELSE pres' = pres /\ ppc' = "doc"
  /\ UNCHANGED <<headers, docRes, s3Url, s3Res>>

\* What the registry answers to the document request, seen with
\* redirect: 'manual': a status, and the Location header (Undef: none).
DocAnswers ==
  [status : {200, 302, 307, 404},
   location : {Undef, "", "https://s3.example/a", "https://s3.example/b"}]

\* 2. Fetch doc and intercept the redirect.
PdfFetchDoc ==
  /\ OnlyPdf
  /\ ppc = "doc"
  /\ requests' = Append(requests, Request(docUrlLocal, TRUE, "manual"))
  /\ \/ PdfCatch("fetch failed") /\ UNCHANGED docRes
     \/ \E answer \in DocAnswers :
          /\ docRes' = answer
          /\ pres' = pres
          /\ ppc' = "s3"
  /\ UNCHANGED <<headers, metaRes, docUrlLocal, s3Url, s3Res>>

\* Mutant of ResolveS3Url: no fallback when the Location header is missing.
ResolveS3UrlStrict(answer, docUrl) ==
  IF answer.status >= 300 /\ answer.status < 400 THEN answer.location ELSE docUrl

\* let s3Url = docUrlLocal;
\* if (docRes.status >= 300 && docRes.status < 400)
\*   s3Url = docRes.headers.get('location') || docUrlLocal;
ResolveS3Url(answer, docUrl) ==
  IF answer.status >= 300 /\ answer.status < 400
  THEN OrElse(answer.location, docUrl)
  ELSE docUrl

\* Mutant of S3Request: the registry's headers are passed again.
S3RequestWithAuth(url) == Request(url, TRUE, "follow")

\* fetch(s3Url): no headers, the default redirect mode.
S3Request(url) == Request(url, FALSE, "follow")

\* What the storage tier answers: a status and a body.
S3Answers ==
  [status : {200, 403}, bytes : {<<>>, <<37>>, <<37, 80>>, <<37, 80, 68, 70>>}]

\* 3. Download from storage, then s3Res.arrayBuffer(); the status is not
\* looked at.
PdfFetchS3 ==
  /\ OnlyPdf
  /\ ppc = "s3"
  /\ s3Url' = ResolveS3Url(docRes, docUrlLocal)
  /\ requests' = Append(requests, S3Request(s3Url'))
  /\ \/ PdfCatch("fetch failed") /\ UNCHANGED s3Res
     \/ \E answer \in S3Answers :
          /\ s3Res' = answer
          /\ pres' = pres
          /\ ppc' = "buffer"
  /\ UNCHANGED <<headers, metaRes, docUrlLocal, docRes>>

PdfRespond ==
  /\ OnlyPdf
  /\ ppc = "buffer"
  /\ pres' = PdfSuccess(s3Res.bytes)
  /\ ppc' = "done"
  /\ UNCHANGED <<headers, metaRes, docUrlLocal, docRes, s3Url, s3Res, requests>>

NextPdf ==
  \/ PdfRequest
  \/ PdfFetchMeta
  \/ PdfFetchDoc
  \/ PdfFetchS3
  \/ PdfRespond

(***************************************************************************)
(* The page (src/src/App.tsx): the inputs, the Extract button and          *)
(* handleExtract.  A run of handleExtract is cut at its awaits; a fetch    *)
(* and the reading of its body are one step.                               *)
(***************************************************************************)
\* What a render shows and the handlers created by it close over.
Snapshot ==
  [loading |-> loading, results |-> results, chApiKey |-> chApiKey,
   geminiApiKey |-> geminiApiKey, companyNumber |-> companyNumber]

\* The page shows the latest state: no render is pending.
Rendered == view = Snapshot

InitApp ==
  /\ chApiKey = ""
  /\ geminiApiKey = ""
  /\ companyNumber = ""
  /\ loading = FALSE
  /\ activeStep = 0
  /\ error = ""
  /\ results = <<>>
  /\ view = [loading |-> FALSE, results |-> <<>>, chApiKey |-> "",
             geminiApiKey |-> "", companyNumber |-> ""]
  /\ runs = <<>>

\* React renders the component again after a state change.
Render ==
  /\ OnlyApp
  /\ ~Rendered
  /\ view' = Snapshot
  /\ UNCHANGED <<chApiKey, geminiApiKey, companyNumber, loading, activeStep,
                 error, results, runs>>

\* setChApiKey: the key typed in the sidebar, or the saved one at mount.
SetChApiKey ==
  /\ OnlyApp
  /\ Rendered
  /\ \E v \in {"ch-key"} : v # chApiKey /\ chApiKey' = v
  /\ UNCHANGED <<geminiApiKey, companyNumber, loading, activeStep, error,
                 results, view, runs>>

SetGeminiApiKey ==
  /\ OnlyApp
  /\ Rendered
  /\ \E v \in {"gemini-key"} : v # geminiApiKey /\ geminiApiKey' = v
  /\ UNCHANGED <<chApiKey, companyNumber, loading, activeStep, error,
                 results, view, runs>>

\* The company number input: disabled={loading}.
SetCompanyNumber ==
  /\ OnlyApp
  /\ Rendered
  /\ ~view.loading
  /\ \E v \in {"11969947", "00000272"} :
       v # companyNumber /\ companyNumber' = v
  /\ UNCHANGED <<chApiKey, geminiApiKey, loading, activeStep, error, results,
                 view, runs>>

\* A run of handleExtract has not settled yet.
InFlight(run) == run.pc # "done"

\* The record of a run that got past validation: the values its closure
\* holds and its locals, not assigned yet; matched says whether an item of
\* the filing history passed the test of the loop, row is the row given to
\* setResults, overlapped whether another run was in flight at some time
\* of this one.
NewRun(v, overlaps) ==
  [pc |-> "details", companyNumber |-> v.companyNumber,
   results |-> v.results, detailsRes |-> "none", details |-> Undef,
   historyRes |-> "none", matched |-> FALSE, soaMeta |-> Null,
   outcome |-> "running", row |-> NoProps,
   overlapped |-> overlaps]

\* A click on Extract (disabled={loading}): handleExtract up to its first
\* await.  The handler is the one of the last render.
HandleExtract ==
  /\ OnlyApp
  /\ ~view.loading
  /\ Len(runs) < MaxRuns
  /\ IF Falsy(view.chApiKey) \/ Falsy(view.geminiApiKey)
     THEN /\ error' = "Please set both API Keys in the sidebar."
          /\ UNCHANGED <<loading, activeStep, runs>>
     ELSE IF Falsy(view.companyNumber)
     THEN /\ error' = "Please enter a valid Company Number."
          /\ UNCHANGED <<loading, activeStep, runs>>
     ELSE /\ loading' = TRUE
          /\ error' = ""
          /\ activeStep' = 1
          /\ LET overlaps == \E r \in 1..Len(runs) : InFlight(runs[r])
             IN  runs' =
                   Append([r \in 1..Len(runs) |->
                             IF InFlight(runs[r])
                             THEN [runs[r] EXCEPT !.overlapped = TRUE]
                             ELSE runs[r]],
                          NewRun(view, overlaps))
  /\ UNCHANGED <<chApiKey, geminiApiKey, companyNumber, results, view>>

\* The record of a run that has returned: its closure and its locals
\* detailsRes, details, historyRes and soaMeta are gone.
Settled(run, outcome, row) ==
  [run EXCEPT !.pc = "done", !.outcome = outcome, !.row = row, !.companyNumber = "", !.results = <<>>,
              !.detailsRes = "none", !.details = Undef,
              !.historyRes = "none", !.soaMeta = Null]

\* Mutant of Catch: the finally block is missing.
CatchWithoutFinally(r, run, message) ==
  /\ error' = "Extraction Failed: " \o message
  /\ loading' = loading
  /\ runs' = [runs EXCEPT ![r] = Settled(run, "failed", NoProps)]
  /\ UNCHANGED results

\* catch (err) { setError(`Extraction Failed: ${err.message}`) }
\* finally { setLoading(false) }
Catch(r, run, message) ==
  /\ error' = "Extraction Failed: " \o message
  /\ loading' = FALSE
  /\ runs' = [runs EXCEPT ![r] = Settled(run, "failed", NoProps)]
  /\ UNCHANGED results

\* details.company_name as the registry holds it: one of the two companies
\* has none.
CompanyName(number) == IF number = "11969947" THEN "ACME LTD" ELSE Undef

\* Step 1: fetch(`/api/ch/company/${companyNumber}`), detailsRes.json().
FetchDetails(r) ==
  /\ OnlyApp
  /\ Rendered
  /\ runs[r].pc = "details"
  /\ \E outcome \in LookupOutcomes :
       LET run == [runs[r] EXCEPT !.detailsRes = outcome]
       IN  IF outcome = "rejected"
           THEN Catch(r, run, "Failed to fetch") /\ UNCHANGED activeStep
           ELSE IF outcome # "ok"
           THEN /\ Catch(r, run,
                      "Could not find this Company Number in Companies House.")
                /\ UNCHANGED activeStep
           ELSE /\ runs' = [runs EXCEPT ![r] =
                              [run EXCEPT !.pc = "history",
                                          !.details = CompanyName(run.companyNumber)]]
                /\ activeStep' = 2
                /\ UNCHANGED <<loading, error, results>>
  /\ UNCHANGED <<chApiKey, geminiApiKey, companyNumber, view>>

\* item.category === 'statement-of-affairs' ||
\* (item.description && item.description.includes('resolution'))
PageMatch(item) ==
  \/ item.category = "statement-of-affairs"
  \/ Includes(item.description, "resolution")

\* The loop over history.items: soaMeta after the items from i on.
RECURSIVE SoaMetaFrom(_, _, _)
SoaMetaFrom(items, i, soaMeta) ==
  IF i > Len(items) THEN soaMeta
  ELSE IF PageMatch(items[i])
  THEN IF Truthy(items[i].document_metadata)
       THEN items[i].document_metadata
       ELSE SoaMetaFrom(items, i + 1, items[i].document_metadata)
  ELSE SoaMetaFrom(items, i + 1, soaMeta)

\* The kinds of items the page's filing-history lookup is answered with.
PageItemKinds ==
  { [category |-> "statement-of-affairs",
     description |-> <<"liquidation", "statement-of-affairs">>, linked |-> TRUE],
    [category |-> "statement-of-affairs",
     description |-> <<"liquidation", "statement-of-affairs">>, linked |-> FALSE],
    [category |-> "insolvency", description |-> <<"resolution">>, linked |-> TRUE],
    [category |-> "accounts", description |-> <<"accounts", "total-exemption">>,
     linked |-> TRUE] }

\* The body of the filing-history answer: items is absent (the body of an
\* error answer), or a list of at most MaxFilings items.
PageHistories ==
  { [present |-> FALSE, items |-> <<>>] }
  \cup UNION { { [present |-> TRUE,
                  items |-> [i \in 1..n |-> FilingItem(ks[i], i)]] :
                  ks \in [1..n -> PageItemKinds] }
              : n \in 0..MaxFilings }

\* history.items || []
ItemsOrNone(history) == IF history.present THEN history.items ELSE <<>>

\* Step 2, up to its first await: fetch(`.../filing-history`).  The status
\* of historyRes is not read.
FetchHistory(r) ==
  /\ OnlyApp
  /\ Rendered
  /\ runs[r].pc = "history"
  /\ \E outcome \in LookupOutcomes :
       LET answered == [runs[r] EXCEPT !.historyRes = outcome]
       IN  IF outcome = "rejected"
           THEN Catch(r, answered, "Failed to fetch")
           ELSE /\ runs' = [runs EXCEPT ![r] =
                              [answered EXCEPT !.pc = "historyJson"]]
                /\ UNCHANGED <<loading, error, results>>
  /\ UNCHANGED <<chApiKey, geminiApiKey, companyNumber, activeStep, view>>

\* What the loop over the items of a filing-history body leaves: soaMeta,
\* and whether an item passed the test.
HistoryRead(history) ==
  LET items == ItemsOrNone(history)
  IN  [soaMeta |-> SoaMetaFrom(items, 1, Null),
       matched |-> \E i \in 1..Len(items) : PageMatch(items[i])]

\* Step 2, from historyRes.json() on: the choice of soaMeta.
ReadHistory(r) ==
  /\ OnlyApp
  /\ Rendered
  /\ runs[r].pc = "historyJson"
  /\ \E read \in {HistoryRead(history) : history \in PageHistories} :
       LET run == [runs[r] EXCEPT !.matched = read.matched]
       IN  IF Falsy(read.soaMeta)
           THEN /\ Catch(r, run,
                      "No Statement of Affairs found in the filing history.")
                /\ UNCHANGED activeStep
           ELSE /\ runs' = [runs EXCEPT ![r] =
                              [run EXCEPT !.pc = "pdf",
                                          !.soaMeta = read.soaMeta]]
                /\ activeStep' = 3
                /\ UNCHANGED <<loading, error, results>>
  /\ UNCHANGED <<chApiKey, geminiApiKey, companyNumber, view>>

\* What /api/pdf answers for the document at url.
PdfAnswers(url) ==
  { PdfSuccess(DocBytes(url)), PdfError(500, "Metadata missing document link") }

\* Step 3: fetch('/api/pdf'), pdfRes.json(), if (!pdfData.success) throw.
FetchPdf(r) ==
  /\ OnlyApp
  /\ Rendered
  /\ runs[r].pc = "pdf"
  /\ \E rejects \in BOOLEAN, pdfData \in PdfAnswers(runs[r].soaMeta) :
       IF rejects
       THEN Catch(r, runs[r], "Failed to fetch") /\ UNCHANGED activeStep
       ELSE IF pdfData.kind # "success"
       THEN /\ Catch(r, runs[r], "PDF Download failed: " \o pdfData.error)
            /\ UNCHANGED activeStep
       ELSE /\ runs' = [runs EXCEPT ![r] =
                          [@ EXCEPT !.pc = "gemini", !.soaMeta = Null]]
            /\ activeStep' = 4
            /\ UNCHANGED <<loading, error, results>>
  /\ UNCHANGED <<chApiKey, geminiApiKey, companyNumber, view>>

\* The JSON values the AI text can hold.
GeminiValues ==
  { Obj([f \in {"total_assets", "accountant_firm"} |-> "GBP-" \o f]) }

\* { companyNumber, companyName: details.company_name || 'N/A',
\*   ...extractedData }
Row(run, parsed) ==
  [f \in {"companyNumber", "companyName"} \cup DOMAIN parsed.props |->
     IF f \in DOMAIN parsed.props THEN parsed.props[f]
     ELSE IF f = "companyNumber" THEN run.companyNumber
     ELSE OrElse(run.details, "N/A")]

\* Mutant of NewResults: the row is put after the rows of the render.
NewResultsAppended(row, rendered) == Append(rendered, row)

\* [row, ...results]: results is the list of the render the run began in.
NewResults(row, rendered) == <<row>> \o rendered

\* Steps 4 and 5: the generateContent fetch, aiResponse.json(), the check
\* of aiResponse.ok, JSON.parse of the text, setResults, and the finally.
FetchGemini(r) ==
  /\ OnlyApp
  /\ Rendered
  /\ runs[r].pc = "gemini"
  /\ \E outcome \in LookupOutcomes, text \in {Text("absent", EmptyObject), Text("garbage", EmptyObject)}
                                   \cup {Text("json", v) : v \in GeminiValues} :
       IF outcome = "rejected"
       THEN Catch(r, runs[r], "Failed to fetch") /\ UNCHANGED activeStep
       ELSE IF outcome # "ok"
       THEN /\ Catch(r, runs[r], "Gemini Error: API key not valid")
            /\ UNCHANGED activeStep
       ELSE IF text.kind # "json"
       THEN /\ Catch(r, runs[r],
                  "Gemini successfully read the document but failed to output a clean table.")
            /\ activeStep' = 5
       ELSE /\ results' = NewResults(Row(runs[r], text.value), runs[r].results)
            /\ activeStep' = 6
            /\ loading' = FALSE
            /\ runs' = [runs EXCEPT ![r] =
                          Settled(runs[r], "added", Row(runs[r], text.value))]
            /\ UNCHANGED error
  /\ UNCHANGED <<chApiKey, geminiApiKey, companyNumber, view>>

NextApp ==
  \/ Render
  \/ SetChApiKey
  \/ SetGeminiApiKey
  \/ SetCompanyNumber
  \/ HandleExtract
  \/ \E r \in 1..Len(runs) : FetchDetails(r)
  \/ \E r \in 1..Len(runs) : FetchHistory(r)
  \/ \E r \in 1..Len(runs) : ReadHistory(r)
  \/ \E r \in 1..Len(runs) : FetchPdf(r)
  \/ \E r \in 1..Len(runs) : FetchGemini(r)

(***************************************************************************)
(* Specifications.                                                         *)
(***************************************************************************)
Init == InitExtract /\ InitPdf /\ InitApp

Next == NextExtract

\* One /api/extract request, from its arrival to its answer.
Spec == Init /\ [][Next]_vars

\* One /api/pdf request, from its arrival to its answer.
SpecPdf == Init /\ [][NextPdf]_vars

\* One session of the page: typing, clicks on Extract, runs of handleExtract.
SpecApp == Init /\ [][NextApp]_vars

\* A step of some run of handleExtract: an awaited call has settled.
RunStep ==
  \E r \in 1..Len(runs) :
    FetchDetails(r) \/ FetchHistory(r) \/ ReadHistory(r) \/ FetchPdf(r)
      \/ FetchGemini(r)

\* The page with both keys saved and a company number entered, rendered.
InitRuns ==
  /\ chApiKey = "ch-key"
  /\ geminiApiKey = "gemini-key"
  /\ companyNumber = "11969947"
  /\ loading = FALSE
  /\ activeStep = 0
  /\ error = ""
  /\ results = <<>>
  /\ view = [loading |-> FALSE, results |-> <<>>, chApiKey |-> "ch-key",
             geminiApiKey |-> "gemini-key", companyNumber |-> "11969947"]
  /\ runs = <<>>

NextRuns ==
  \/ Render
  \/ HandleExtract
  \/ RunStep

InitFair == InitExtract /\ InitPdf /\ InitRuns

\* The clicks on Extract and the runs of handleExtract, from the page
\* filled in, when every awaited call settles and React renders after a
\* state change: a run that waits is resumed, however often the page is
\* rendered again in between.
FairSpecApp ==
  InitFair /\ [][NextRuns]_vars /\ WF_vars(Render) /\ SF_vars(RunStep)

(***************************************************************************)
(* Properties of /api/extract.                                             *)
(***************************************************************************)
\* The kinds of the calls made so far, in order.
CallKinds == [k \in 1..Len(calls) |-> calls[k].kind]

\* C1: when the profile lookup or the filing-history lookup answers with a
\* non-success status, the request ends with status 500 and an {error}
\* body that carries no field of the row, and no later stage is called:
\* after a profile failure the profile lookup is the only call, after a
\* filing-history failure the two lookups are the only calls.
C1_MandatoryFailureAborts ==
  /\ companyRes = "notok" =>
       /\ pc = "done"
       /\ res.status = 500 /\ res.kind = "error" /\ res.error # ""
       /\ DOMAIN res.row = {}
       /\ CallKinds = <<"profile">>
  /\ filingRes = "notok" =>
       /\ pc = "done"
       /\ res.status = 500 /\ res.kind = "error" /\ res.error # ""
       /\ DOMAIN res.row = {}
       /\ CallKinds = <<"profile", "history">>

\* C1 witness: a request answered after the profile lookup returned a
\* non-success status.
C1_Witness == companyRes = "notok" /\ res.status = 500

\* C2: once the profile and the filing-history lookups have both
\* succeeded, the request never ends with the error response.
C2_NoErrorAfterMandatory ==
  (companyRes = "ok" /\ filingRes = "ok") => res.kind # "error"

\* C3: every row returned holds each optional field as a string: never
\* absent, undefined or null.
C3_OptionalFieldsAreStrings ==
  res.kind = "row" =>
    \A f \in OptionalFields :
      f \in DOMAIN res.row /\ res.row[f] \notin {Undef, Null}

\* The document-metadata URLs of the items that have one, in order.
HasLink(item) == Truthy(item.document_metadata)

LinkedUrls(items) ==
  LET linked == SelectSeq(items, HasLink)
  IN  [k \in 1..Len(linked) |-> linked[k].document_metadata]

\* The calls of the fallback pass: the downloads of accounts documents and
\* the one-field extractions.
IsFallbackDownload(c) ==
  /\ c.kind = "download"
  /\ \E i \in 1..Len(accountItems) : accountItems[i].document_metadata = c.url

IsFallbackCall(c) == IsFallbackDownload(c) \/ c.kind = "fallbackExtract"

FallbackCalls == SelectSeq(calls, IsFallbackCall)

FallbackDownloadUrls ==
  LET ds == SelectSeq(calls, IsFallbackDownload)
  IN  [k \in 1..Len(ds) |-> ds[k].url]

IsPrefix(a, b) == Len(a) <= Len(b) /\ SubSeq(b, 1, Len(a)) = a

\* A fallback extraction has answered with a non-empty accountantFirmName.
FallbackFound ==
  \E k \in 1..Len(calls) : calls[k].kind = "fallbackExtract" /\ calls[k].yield # ""

\* C4: the fallback loop takes the accounts candidates in filing-history
\* order and stops at the first one whose extraction yields a non-empty
\* accountantFirmName: no download and no extraction follows that call, the
\* name is the one read from the document just downloaded, and it is the
\* accountantFirmName of the row.
C4_FallbackStopsAtFirstName ==
  /\ IsPrefix(FallbackDownloadUrls, LinkedUrls(accountItems))
  /\ \A k \in 1..Len(calls) :
       (calls[k].kind = "fallbackExtract" /\ calls[k].yield # "") =>
         /\ \A j \in 1..Len(calls) :
              j > k => calls[j].kind \notin {"download", "fallbackExtract"}
         /\ \A j \in 1..Len(calls) :
              (j < k /\ calls[j].kind = "fallbackExtract") => calls[j].yield = ""
         /\ k > 1 /\ IsFallbackDownload(calls[k - 1])
         /\ calls[k].data = Base64(DocBytes(calls[k - 1].url))
         /\ calls[k].yield = FirmIn(calls[k - 1].url)
         /\ Prop(extractedData, "accountantFirmName") = calls[k].yield
         /\ res.kind = "row" => res.row["accountantFirmName"] = calls[k].yield

\* C4 witness: three accounts candidates, the first extraction yields no
\* name and the second yields one: two extraction calls, the third
\* candidate is never downloaded, the row carries the second's name.
C4_Witness ==
  /\ pc = "done" /\ res.kind = "row"
  /\ Len(LinkedUrls(accountItems)) = 3
  /\ [k \in 1..Len(FallbackCalls) |-> FallbackCalls[k].kind]
       = <<"download", "fallbackExtract", "download", "fallbackExtract">>
  /\ FallbackCalls[2].yield = ""
  /\ FallbackCalls[4].yield = FirmIn(LinkedUrls(accountItems)[2])
  /\ res.row["accountantFirmName"] = FirmIn(LinkedUrls(accountItems)[2])

\* C5: a failure on one accounts candidate does not stop the loop: at each
\* turn of the loop every earlier candidate with a document has been
\* downloaded, in order, and when the loop is over without a name every
\* candidate with a document has been.
C5_FailureDoesNotStopLoop ==
  /\ pc \in {"loop", "accDownload"} =>
       FallbackDownloadUrls = LinkedUrls(SubSeq(accountItems, 1, accIdx - 1))
  /\ pc = "accExtract" =>
       FallbackDownloadUrls = LinkedUrls(SubSeq(accountItems, 1, accIdx))
  /\ (pc \in {"ethnicity", "search", "respond", "done"} /\ accIdx >= 1
        /\ ~FallbackFound) =>
       FallbackDownloadUrls = LinkedUrls(accountItems)

\* C5 witness: the download of the first candidate fails (no extraction
\* follows it), the extraction of the second yields no name, and the third
\* is still tried and yields the name.
C5_Witness ==
  /\ pc = "done" /\ res.kind = "row"
  /\ [k \in 1..Len(FallbackCalls) |-> FallbackCalls[k].kind]
       = <<"download", "download", "fallbackExtract", "download", "fallbackExtract">>
  /\ FallbackCalls[3].yield = ""
  /\ FallbackCalls[5].yield # ""
  /\ FallbackDownloadUrls = LinkedUrls(accountItems)

\* C7: every download of /api/extract is two requests: an authenticated
\* one to the document-metadata URL with redirect following disabled,
\* then an unauthenticated one to the storage URL, before its bytes reach
\* the extractor.
C7_DownloadIsTwoHop ==
  \A k \in 1..Len(calls) :
    calls[k].kind = "download" =>
      /\ calls[k].auth
      /\ calls[k].redirect = "manual"
      /\ \A j \in 1..Len(calls) :
           (j > k /\ calls[j].kind \in {"extract", "fallbackExtract"}
              /\ calls[j].data = Base64(DocBytes(calls[k].url))) =>
             \E m \in (k + 1)..(j - 1) :
               calls[m].kind = "storage" /\ ~calls[m].auth

\* The filing-history items that match the insolvency predicate.
SoaMatches ==
  {i \in 1..Len(filingData) :
     /\ filingData[i].category = "insolvency"
     /\ \E w \in 1..Len(filingData[i].description) :
          filingData[i].description[w] = "statement-of-affairs"}

\* The handler is past Document Sorting.
Sorted == officersRes \in {"ok", "notok"} /\ pc # "sorting"

\* C10: when the filing history has an item of category "insolvency"
\* whose description contains "statement-of-affairs", the candidate is the
\* earliest such item; the primary pass downloads that item's
\* document-metadata reference (when it has one), the primary extraction
\* is only ever run on the document downloaded from it, and no other
\* matching item's document is downloaded.
C10_EarliestSoaSelected ==
  LET matches == SoaMatches
      matchUrls == {filingData[j].document_metadata : j \in matches}
  IN
  (Sorted /\ matches # {}) =>
    /\ soaItem \in matches
    /\ \A j \in matches : soaItem <= j
    /\ \A k \in 1..Len(calls) :
         calls[k].kind = "extract" =>
           /\ k > 1
           /\ calls[k - 1].kind = "download"
           /\ calls[k - 1].url = filingData[soaItem].document_metadata
           /\ calls[k].data = Base64(DocBytes(filingData[soaItem].document_metadata))
    /\ \A k \in 1..Len(calls) :
         (calls[k].kind = "download" /\ calls[k].url \in matchUrls) =>
           calls[k].url = filingData[soaItem].document_metadata
    /\ (Truthy(filingData[soaItem].document_metadata) /\ pc # "soaDownload") =>
         /\ Len(calls) >= 4
         /\ calls[4].kind = "download"
         /\ calls[4].url = filingData[soaItem].document_metadata
    /\ pc = "soaExtract" =>
         pdfBase64 = Base64(DocBytes(filingData[soaItem].document_metadata))

\* C10 witness: two matching items with a document, and the primary
\* extraction has been run.
C10_Witness ==
  /\ pc = "done"
  /\ \E i \in SoaMatches, j \in SoaMatches :
       /\ i < j
       /\ Truthy(filingData[i].document_metadata)
       /\ Truthy(filingData[j].document_metadata)
  /\ \E k \in 1..Len(calls) : calls[k].kind = "extract"

(***************************************************************************)
(* Properties of the /api/pdf proxy.                                       *)
(***************************************************************************)
IsRedirect(status) == status >= 300 /\ status < 400

\* C6: when the authenticated request made with redirect: 'manual' answers
\* 3xx with a Location header X, the next request goes to exactly X; the
\* request to the resolved storage URL never carries the Authorization
\* header, and no request that carries it goes to the Location.
C6_StorageRequestUnauthenticated ==
  /\ Len(requests) >= 3 =>
       /\ ~requests[3].auth
       /\ requests[3].url = s3Url
       /\ requests[2].auth /\ requests[2].redirect = "manual"
       /\ (IsRedirect(docRes.status) /\ Truthy(docRes.location)) =>
            requests[3].url = docRes.location
  /\ \A k \in 1..Len(requests) :
       requests[k].auth => (k <= 2 /\ requests[k].url # docRes.location)

\* C6 witness: a 302 with a Location, and the document served from it.
C6_Witness ==
  /\ ppc = "done" /\ pres.kind = "success"
  /\ docRes = [status |-> 302, location |-> "https://s3.example/a"]
  /\ requests[3] = [url |-> "https://s3.example/a", auth |-> FALSE,
                    redirect |-> "follow"]

\* C8: a 3xx answer without a Location header does not end the request
\* with an error: the next request goes to the pre-redirect URL, and only
\* that request's own rejection can still fail the chain.
C8_MissingLocationFallsBack ==
  (IsRedirect(docRes.status) /\ Falsy(docRes.location)) =>
    \/ ppc = "s3" /\ pres.kind = "none"
    \/ /\ Len(requests) = 3
       /\ requests[3].url = docUrlLocal
       /\ requests[2].url = docUrlLocal
       /\ pres.kind = "error" => s3Res.status = 0

\* C8 witness: a 302 without Location, and the chain ended with a success.
C8_Witness ==
  /\ docRes = [status |-> 302, location |-> Undef]
  /\ ppc = "done" /\ pres.kind = "success"
  /\ requests[3].url = docUrlLocal

\* C9: a non-success, non-redirect status at either hop ends the request
\* with {error} and a non-2xx status; {success: true} is answered only
\* when the storage request answered with a success status.
C9_NonSuccessSurfaces ==
  ppc = "done" =>
    /\ pres.kind = "success" => (s3Res.status >= 200 /\ s3Res.status < 300)
    /\ (\/ docRes.status >= 400
        \/ s3Res.status >= 400
        \/ metaRes.status >= 400) =>
         (pres.kind = "error" /\ ~(pres.status >= 200 /\ pres.status < 300))

(***************************************************************************)
(* Further properties of /api/extract.                                     *)
(***************************************************************************)
\* The positions of the filing-history items of category "accounts".
AccountsPositions ==
  {i \in 1..Len(filingData) : filingData[i].category = "accounts"}

\* C11: the accounts candidates are exactly the items of category
\* "accounts" in the registry's order, cut to the first 3; at most 3
\* accounts documents are downloaded and at most 3 sent to the fallback
\* extractor, and the document of a 4th or later accounts item is never
\* downloaded.
C11_FirstThreeAccounts ==
  LET positions == AccountsPositions
      \* the accounts items after the third, by their rank among positions
      late == {i \in positions : Cardinality({j \in positions : j <= i}) > 3}
      lateUrls == {filingData[i].document_metadata : i \in late}
      accountsUrls == {filingData[i].document_metadata : i \in positions}
  IN
  Sorted =>
    /\ Len(accountItems) =
         (IF Cardinality(positions) < 3 THEN Cardinality(positions) ELSE 3)
    /\ \A i \in positions \ late :
         accountItems[Cardinality({j \in positions : j <= i})] = filingData[i]
    /\ \A k \in 1..Len(calls) :
         calls[k].kind = "download" => calls[k].url \notin lateUrls
    /\ Cardinality({k \in 1..Len(calls) : calls[k].kind = "fallbackExtract"}) <= 3
    /\ Cardinality({k \in 1..Len(calls) :
                      /\ calls[k].kind = "download"
                      /\ calls[k].url \in accountsUrls}) <= 3

\* C11 witness: four accounts items with a document; the first three are
\* downloaded and extracted without a name, the fourth is never touched.
C11_Witness ==
  /\ pc = "done" /\ res.kind = "row"
  /\ Cardinality(AccountsPositions) = 4
  /\ \A i \in AccountsPositions : Truthy(filingData[i].document_metadata)
  /\ Cardinality({k \in 1..Len(calls) : calls[k].kind = "fallbackExtract"}) = 3
  /\ res.row["accountantFirmName"] = ""

\* C17: a request without a company number or without a registry credential
\* is answered 400 with an error body, and no external call is made for it.
C17_MissingInputRejected ==
  (pc # "start" /\ (body.companyNumber = "" \/ body.chApiKey = "")) =>
    /\ pc = "done"
    /\ res.kind = "error"
    /\ res.status = 400
    /\ res.error # ""
    /\ calls = <<>>

\* C17 witness: the company number is given, the credential is not, and the
\* request has been answered.
C17_Witness ==
  /\ pc = "done"
  /\ body.companyNumber # ""
  /\ body.chApiKey = ""
  /\ res.status = 400

\* The positions of the call log holding a call of the given kind.
CallsOfKind(kind) == {k \in 1..Len(calls) : calls[k].kind = kind}

\* The positions of the call log where a document went to an extractor.
ExtractorCalls == CallsOfKind("extract") \cup CallsOfKind("fallbackExtract")

\* C16: nothing is retried.  The profile, filing-history and officers
\* lookups, the primary extraction, the ethnicity call and the web search
\* are each issued at most once in a request; no document is downloaded
\* twice and no document is sent to an extractor twice, whatever failed.
C16_NoRetry ==
  /\ \A kind \in {"profile", "history", "officers", "extract", "ethnicity",
                   "search"} :
       Cardinality(CallsOfKind(kind)) <= 1
  /\ \A j, k \in CallsOfKind("download") :
       calls[j].url = calls[k].url => j = k
  /\ \A j, k \in ExtractorCalls :
       calls[j].data = calls[k].data => j = k

\* C16 witness: the primary download failed and an accounts download
\* failed, the next accounts document was extracted, and the request still
\* ended with a row; every call above was made once.
C16_Witness ==
  /\ pc = "done" /\ res.kind = "row"
  /\ soaItem # 0
  /\ Cardinality(CallsOfKind("extract")) = 0
  /\ Cardinality(CallsOfKind("download")) = 3
  /\ Cardinality(CallsOfKind("fallbackExtract")) = 1
  /\ Cardinality(CallsOfKind("ethnicity")) = 1
  /\ Cardinality(CallsOfKind("search")) = 1

\* C15: the web search is run at most once, only with a non-empty
\* accountantFirmName that an extraction call yielded, and it is the last
\* external call of the request (every extraction call is before it);
\* accountantUrl is the url of the first result, and it is "" when the
\* search failed, gave no result or was not run, so a row with a non-empty
\* accountantUrl has a non-empty accountantFirmName.
C15_SearchOnlyWithFirmName ==
  LET searches == CallsOfKind("search")
      name == Prop(extractedData, "accountantFirmName")
  IN
  /\ Cardinality(searches) <= 1
  /\ \A k \in searches :
       /\ Truthy(name) /\ name # ""
       /\ calls[k].url = name \o " UK"
       /\ \E j \in ExtractorCalls : j < k /\ calls[j].yield = name
       /\ k = Len(calls)
       /\ accountantUrl = calls[k].yield
       /\ accountantUrl \in {""} \cup {r[1] : r \in SearchResults \ {<<>>}}
  /\ searches = {} => accountantUrl = ""
  /\ (\E n \in 1..Len(logged) : logged[n] = "Web search failed") =>
       accountantUrl = ""
  /\ res.kind = "row" =>
       /\ res.row["accountantUrl"] = accountantUrl
       /\ res.row["accountantUrl"] # "" => res.row["accountantFirmName"] # ""

\* C15 witness: the name came from the fallback pass, the search ran after
\* the ethnicity call and its first result is the row's accountantUrl.
C15_Witness ==
  /\ pc = "done" /\ res.kind = "row"
  /\ Cardinality(CallsOfKind("fallbackExtract")) = 2
  /\ Cardinality(CallsOfKind("ethnicity")) = 1
  /\ Cardinality(CallsOfKind("search")) = 1
  /\ res.row["accountantUrl"] = "https://smithco.example"
  /\ res.row["accountantFirmName"] # ""

\* C14: the officers lookup is best-effort.  When it fails (a non-success
\* answer or no answer) the request is not ended by it, directorName is ""
\* in the row and no ethnicity call is made; when it succeeds directorName
\* is the name of the first officer whose role is "director" ("" when
\* there is none); the ethnicity call is made at most once and only with a
\* non-empty directorName.
C14_OfficersBestEffort ==
  /\ officersRes \in {"notok", "rejected"} =>
       /\ directorName = ""
       /\ CallsOfKind("ethnicity") = {}
       /\ res.kind = "row" => res.row["directorName"] = ""
       /\ res.kind = "error" => Len(calls) > 3
  /\ officersRes = "ok" =>
       /\ directorName \in {FirstDirector(officers) : officers \in OfficerLists}
       /\ res.kind = "row" => res.row["directorName"] = directorName
  /\ Cardinality(CallsOfKind("ethnicity")) <= 1
  /\ CallsOfKind("ethnicity") # {} => directorName # ""

\* The primary step has failed: its catch has logged the failure.
PrimaryFailed == \E n \in 1..Len(logged) : logged[n] = "Failed to extract SoA"

\* C13: a failure inside the primary step (the download fails, the AI call
\* fails, or its text does not parse) is caught there.  The request does
\* not end in an error, the seven financial fields are "" in the row, and
\* the later steps still run: the fallback loop goes through the accounts
\* candidates, the ethnicity call is made when there is a director name
\* and the web search when there is a firm name.
C13_PrimaryFailureIsCaught ==
  PrimaryFailed =>
    /\ res.kind # "error"
    /\ \A f \in FinancialFields : Prop(extractedData, f) = Undef
    /\ pc = "done" =>
         /\ res.kind = "row"
         /\ \A f \in FinancialFields :
              f \in DOMAIN res.row /\ res.row[f] = ""
         /\ IsPrefix(FallbackDownloadUrls, LinkedUrls(accountItems))
         /\ (FallbackFound
               \/ Len(FallbackDownloadUrls) = Len(LinkedUrls(accountItems)))
         /\ directorName # "" => CallsOfKind("ethnicity") # {}
         /\ res.row["accountantFirmName"] # "" => CallsOfKind("search") # {}

\* C13 witness: the primary extraction call was made and failed, the
\* fallback pass then found the firm name, and the row was returned.
C13_Witness ==
  /\ PrimaryFailed
  /\ pc = "done" /\ res.kind = "row"
  /\ CallsOfKind("extract") # {}
  /\ res.row["totalAssets"] = ""
  /\ res.row["accountantFirmName"] # ""
  /\ CallsOfKind("ethnicity") # {}
  /\ CallsOfKind("search") # {}

\* C21: only the primary extraction writes the seven financial fields.
\* No step of the fallback pass (nor any other step) changes them in
\* extractedData, whatever the accounts documents' extractions return,
\* and the row returned holds each of them as extractedData has it, ""
\* for a field without a value; they are all "" when the primary
\* extraction was not called or the primary step failed.
C21_FallbackChangesOnlyFirmName ==
  [][/\ pc # "soaExtract" =>
          \A f \in FinancialFields :
            Prop(extractedData', f) = Prop(extractedData, f)
     /\ (res.kind = "none" /\ res'.kind = "row") =>
          \A f \in FinancialFields :
            /\ res'.row[f] = OrElse(Prop(extractedData, f), "")
            /\ (CallsOfKind("extract") = {} \/ PrimaryFailed) =>
                 res'.row[f] = ""]_vars

\* C21 witness: the primary extraction gave the seven fields and no firm
\* name, the fallback pass found the name, and the row holds the primary
\* fields next to the fallback's name.
C21_Witness ==
  /\ pc = "done" /\ res.kind = "row"
  /\ \E k \in CallsOfKind("extract") : calls[k].yield = ""
  /\ \E k \in CallsOfKind("fallbackExtract") :
       calls[k].yield # "" /\ res.row["accountantFirmName"] = calls[k].yield
  /\ \A f \in FinancialFields : res.row[f] = "GBP-" \o f

\* The accountantFirmName the primary extraction gave: "" when it was not
\* called, failed or gave none.
PrimaryName ==
  IF CallsOfKind("extract") = {} THEN ""
  ELSE calls[CHOOSE k \in CallsOfKind("extract") : TRUE].yield

\* The handler is past the guard of the fallback pass.
PastFallbackGuard ==
  Sorted /\ pc \notin {"soaDownload", "soaExtract", "fallbackGuard"}

\* The fallback pass as the guard decides it: with a name from the primary
\* extraction, or without a candidate, nothing of the pass happens and the
\* row has the primary name; otherwise the loop is entered at the first
\* candidate, and its document (when it has one) is the first downloaded.
FallbackRunsAsGuarded ==
  /\ (PrimaryName # "" \/ Len(accountItems) = 0) =>
       /\ accIdx = 0
       /\ FallbackCalls = <<>>
       /\ res.kind = "row" => res.row["accountantFirmName"] = PrimaryName
  /\ (PrimaryName = "" /\ Len(accountItems) > 0) =>
       /\ accIdx >= 1
       /\ (/\ Truthy(accountItems[1].document_metadata)
           /\ (accIdx > 1 \/ pc \notin {"loop", "accDownload"})) =>
            /\ FallbackDownloadUrls # <<>>
            /\ FallbackDownloadUrls[1] = accountItems[1].document_metadata

\* C22: the fallback pass runs exactly when accountantFirmName is still
\* empty after the primary step and there is an accounts candidate: with
\* a non-empty name from the primary extraction no accounts document is
\* downloaded or extracted and the row keeps that name; when the primary
\* step was skipped, failed or gave no name, the first candidate is tried.
C22_FallbackRunsWhenNameEmpty ==
  PastFallbackGuard => FallbackRunsAsGuarded

\* The same, for a primary answer that is not the JSON value null.
FallbackRunsUnlessNull ==
  (PastFallbackGuard /\ ~extractedData.null) => FallbackRunsAsGuarded

(***************************************************************************)
(* Properties of the page.                                                 *)
(***************************************************************************)
NoStatementOfAffairs == "No Statement of Affairs found in the filing history."

\* C12: when the filing-history lookup has succeeded and no item of the
\* filing history passes the page's test (category "statement-of-affairs",
\* or a description containing "resolution"), the run does not end in an
\* error at that step.
C12_NoMatchIsNotAnError ==
  [][\A r \in 1..Len(runs) :
       (/\ runs[r].pc = "historyJson"
        /\ runs[r].historyRes = "ok"
        /\ runs'[r].pc # "historyJson"
        /\ ~runs'[r].matched) =>
         ~(/\ runs'[r].outcome = "failed"
           /\ error' = "Extraction Failed: " \o NoStatementOfAffairs)]_vars

\* The same for /api/extract: without a matching item no candidate is
\* chosen, no primary download or extraction is made, and the request goes
\* on without an error of that step.
ServerNoMatchSkipsPrimary ==
  (Sorted /\ SoaMatches = {}) =>
    /\ soaItem = 0
    /\ CallsOfKind("extract") = {}
    /\ pc \notin {"soaDownload", "soaExtract"}
    /\ res.kind # "error"

\* C18: a run adds a row only when both the profile lookup and the
\* filing-history lookup were answered with a success status.
C18_RowOnlyAfterBothLookups ==
  [][\A r \in 1..Len(runs) :
       (runs[r].outcome = "running" /\ runs'[r].outcome = "added") =>
         (runs[r].detailsRes = "ok" /\ runs[r].historyRes = "ok")]_vars

\* The runs that have added a row, in the order they began.
AddedRuns == SelectSeq(runs, LAMBDA run : run.outcome = "added")

\* No run of the session has overlapped another.
NoOverlap == \A r \in 1..Len(runs) : ~runs[r].overlapped

\* C19 as stated: after runs that did not overlap, the list holds one row
\* for each successful run, each placed after the rows of earlier runs.
C19_RowsInRunOrder ==
  NoOverlap =>
    /\ Len(results) = Len(AddedRuns)
    /\ \A k \in 1..Len(AddedRuns) : results[k] = AddedRuns[k].row

\* C19: after runs that did not overlap, the list holds one row for each
\* successful run, each placed before the rows of earlier runs (the newest
\* first); rows of earlier runs are unchanged and keep their order, and
\* two successful runs for one company give two rows.
C19_NewestRowFirst ==
  NoOverlap =>
    /\ Len(results) = Len(AddedRuns)
    /\ \A k \in 1..Len(AddedRuns) :
         results[Len(AddedRuns) + 1 - k] = AddedRuns[k].row

\* C19 witness: two successful runs, one after the other, for the same
\* company: two equal rows.
C19_Witness ==
  /\ NoOverlap
  /\ Len(AddedRuns) = 2
  /\ AddedRuns[1].row["companyNumber"] = AddedRuns[2].row["companyNumber"]
  /\ Len(results) = 2
  /\ results[1] = results[2]

\* C20: when two runs have overlapped and both have added their row, the
\* list holds the rows of all successful runs: none is lost or overwritten.
C20_OverlapLosesNoRow ==
  (\E a, b \in 1..Len(runs) :
     /\ a < b
     /\ runs[a].overlapped /\ runs[b].overlapped
     /\ runs[a].outcome = "added" /\ runs[b].outcome = "added") =>
    /\ Len(results) = Len(AddedRuns)
    /\ \A k \in 1..Len(AddedRuns) :
         \E n \in 1..Len(results) : results[n] = AddedRuns[k].row

\* No run of handleExtract is in flight.
NoRunInFlight == \A r \in 1..Len(runs) : ~InFlight(runs[r])

\* C23: a run that got past validation has set loading to true; when
\* every awaited call settles, the runs in flight all end, on success or
\* on a failure at any step, each setting loading to false as it ends;
\* loading is never left true with no run in flight, and the button
\* (disabled on the rendered loading) is enabled again.
C23_LoadingIsReset ==
  /\ [](NoRunInFlight => ~loading)
  /\ [][/\ Len(runs') > Len(runs) => loading'
        /\ \A r \in 1..Len(runs) :
             (InFlight(runs[r]) /\ ~InFlight(runs'[r])) => ~loading']_vars
  /\ (~NoRunInFlight) ~> (NoRunInFlight /\ ~loading /\ ~view.loading)

\* C23 witness: one run has failed and a later one has added its row;
\* both have returned and the button is enabled again.
C23_Witness ==
  /\ Len(runs) = 2
  /\ runs[1].outcome = "failed"
  /\ runs[2].outcome = "added"
  /\ ~loading /\ ~view.loading

\* What the end of a run leaves, for the runs the predicate covers: a
\* click stopped by validation and a run that fails leave the results
\* list as it was and a non-empty error message; a run that succeeds
\* puts its row in the list and leaves the error message empty.
RunEndsCleanly(covered(_)) ==
  /\ (HandleExtract /\ runs' = runs) => (results' = results /\ error' # "")
  /\ \A r \in 1..Len(runs) :
       (InFlight(runs[r]) /\ covered(runs'[r])) =>
         /\ runs'[r].outcome = "failed" =>
              (results' = results /\ error' # "")
         /\ runs'[r].outcome = "added" =>
              /\ Len(results') > 0
              /\ results'[1] = runs'[r].row
              /\ error' = ""

AnyRun(run) == TRUE

NotOverlapped(run) == ~run.overlapped

\* C24: a run that fails at any step (validation, profile lookup, no
\* statement of affairs, download, AI call, unparseable AI output) leaves
\* the results list as it was and ends with a non-empty error message;
\* a run that succeeds adds its row and ends with the error message empty.
C24_RunEndsCleanly == [][RunEndsCleanly(AnyRun)]_vars

\* The same, for the runs that no other run has overlapped.
RunEndsCleanlyWithoutOverlap == [][RunEndsCleanly(NotOverlapped)]_vars

=============================================================================
